---------------------------- MODULE Spec2Model ----------------------------
(***************************************************************************)
(* A model of busylib: the type-erased HTTP body (src/http/body.rs), its   *)
(* error type (src/http/error.rs), the envelope conversions                *)
(* (src/http/convert.rs) and the log-file cleaner (src/logger.rs).         *)
(*                                                                         *)
(* Spec         one Body: built by a constructor, then drained by to_bytes *)
(* SpecDowncast one call of Body::try_downcast::<T, K>                     *)
(* SpecConvert  one envelope: ToBytes::to_bytes, then FromBytes::from_bytes*)
(* SpecLog      one LogCleaner: direct cleanup calls and the cron job      *)
(* SpecUnwrap   one call of unwp, ex, ok, some, ok_ctx or some_ctx         *)
(*              (src/prelude.rs)                                           *)
(***************************************************************************)
EXTENDS Integers, Sequences, FiniteSets

VARIABLES
    pc,         \* position of the Body's owner: start, built, collecting, done
    path,       \* which constructor built the Body
    input,      \* the value handed to the constructor
    body,       \* the Body (its field .0 is body.box)
    collected,  \* the chunks Collect has buffered so far
    result,     \* what to_bytes returned
    pulls,      \* poll_frame calls issued to the Body so far
    terminal,   \* the pull at which the source delivered Err or end-of-data
    dc,         \* SpecDowncast: the call of try_downcast and its result
    env,        \* SpecConvert: the envelope being converted
    dir,        \* SpecLog: the entries of self.dir, in read_dir order
    days,       \* SpecLog: self.days
    cron,       \* SpecLog: self.cron_expression
    sched,      \* SpecLog: the scheduler's state
    lastRun,    \* SpecLog: the last cleanup run: who ran it, on what, the outcome
    handled,    \* SpecLog: whether error_handler.handle_error got the last failure
    sinceTick,  \* SpecLog: time units since the cron expression last matched
    uw          \* SpecUnwrap: the call, what it returned, logged and panicked with

bodyVars == <<pc, path, input, body, collected, result, pulls, terminal>>
logVars == <<dir, days, cron, sched, lastRun, handled, sinceTick>>
vars == <<pc, path, input, body, collected, result, pulls, terminal, dc, env,
          dir, days, cron, sched, lastRun, handled, sinceTick, uw>>

---------------------------------------------------------------------------
(* Bounds *)

MaxChunkLen == 1
MaxItems == 3
MaxLayers == 2
MaxBufLen == 2
MaxEntries == 2
MaxDays == 1
UnitsPerDay == 2
MaxFrames == 2

---------------------------------------------------------------------------
(* Bytes, chunks, errors *)

Byte == {97, 98}

Chunks == UNION {[1..n -> Byte] : n \in 0..MaxChunkLen}

\* A source's own error value e, as the stream or body yields it.
SourceErrors == {"io", "eof"}

\* An error value: the source error `id` under `wraps` layers of http::Error
\* (Error { inner: Error { inner: e } } is [id |-> e, wraps |-> 2]).
RawError(e) == [id |-> e, wraps |-> 0]

NoError == [id |-> "none", wraps |-> 0]

\* Error::new: one more Error around the value.
ErrorNew(error) == [id |-> error.id, wraps |-> error.wraps + 1]

\* Error::into_inner, Error::source: the value under the outermost Error.
IntoInner(error) == [id |-> error.id, wraps |-> error.wraps - 1]

---------------------------------------------------------------------------
(* What a stream or a body yields, one item per poll *)

OkItem(c) == [tag |-> "Ok", chunk |-> c, err |-> NoError]
ErrItem(e) == [tag |-> "Err", chunk |-> <<>>, err |-> e]
PendingItem == [tag |-> "Pending", chunk |-> <<>>, err |-> NoError]
NoneItem == [tag |-> "None", chunk |-> <<>>, err |-> NoError]

Items == {OkItem(c) : c \in Chunks} \cup {ErrItem(RawError(e)) : e \in SourceErrors}
            \cup {PendingItem}

\* Every behaviour of a wrapped sequence: what it yields on each poll, then None.
Streams == UNION {[1..n -> Items] : n \in 0..MaxItems}

---------------------------------------------------------------------------
(* Types, as try_downcast sees them through TypeId *)

TBody == <<"Body">>
TBoxBody == <<"UnsyncBoxBody", "Bytes", "Error">>
TStreamBody == <<"StreamBody", "S">>
TFull == <<"Full", "Bytes">>
TEmpty == <<"Empty", "Bytes">>
TGeneric == <<"B">>

OptionOf(t) == <<"Option">> \o t

\* TypeId::of::<T>(): distinct types have distinct ids.
TypeId(t) == t

---------------------------------------------------------------------------
(* Values *)

StreamBodyOf(s) == [ty |-> TStreamBody, items |-> s]
GenericBodyOf(s) == [ty |-> TGeneric, items |-> s]
EmptyNew == [ty |-> TEmpty, items |-> <<>>]

\* Full::from(buf): no data is kept for an empty buffer.
FullFrom(buf) ==
    [ty |-> TFull, items |-> IF Len(buf) = 0 THEN <<>> ELSE <<OkItem(buf)>>]

\* body.map_err(Error::new).boxed_unsync()
MapErrBoxed(b) == [ty |-> TBoxBody, inner |-> b]


NoValue == [ty |-> <<"none">>]

\* The source under every Body and box layer.
RECURSIVE Leaf(_)
Leaf(b) ==
    IF b.ty = TBody THEN Leaf(b.box)
    ELSE IF b.ty = TBoxBody THEN Leaf(b.inner)
    ELSE b

\* The erasure layers (map_err + box) around the source.
RECURSIVE Layers(_)
Layers(b) ==
    IF b.ty = TBody THEN Layers(b.box)
    ELSE IF b.ty = TBoxBody THEN 1 + Layers(b.inner)
    ELSE 0

---------------------------------------------------------------------------
(* Body's constructors *)

\* A plausible slip: the check compares what the value can do (a body of Bytes
\* is a body of Bytes), not what it is.
TryDowncastByCapability(T, k) ==
    LET bodies == {TBoxBody, TStreamBody, TFull, TEmpty, TGeneric,
                   <<"UnsyncBoxBody", "Bytes", "BoxError">>}
        same == (T = k.ty) \/ (T \in bodies /\ k.ty \in bodies)
    IN  [ok |-> same, val |-> k, panicked |-> FALSE]

\* Body::try_downcast::<T, K>(k), K being k's type
TryDowncast(T, k) ==
    LET slot == [some |-> TRUE, ty |-> OptionOf(k.ty), val |-> k]
        hit == TypeId(slot.ty) = TypeId(OptionOf(T))
    IN  IF hit
        THEN [ok |-> TRUE, val |-> slot.val, panicked |-> ~slot.some]
        ELSE [ok |-> FALSE, val |-> slot.val, panicked |-> ~slot.some]

\* Body::boxed
Boxed(b) ==
    LET r == TryDowncast(TBoxBody, b)
    IN  IF r.ok THEN r.val ELSE MapErrBoxed(r.val)

\* A plausible slip: no downcast, every value is boxed again.
NewAlwaysBoxes(b) == [ty |-> TBody, box |-> MapErrBoxed(b)]

\* Body::new
New(b) ==
    LET r == TryDowncast(TBody, b)
    IN  IF r.ok THEN r.val ELSE [ty |-> TBody, box |-> Boxed(r.val)]

\* Body::empty
Empty == New(EmptyNew)

\* Body::from_stream
FromStream(s) == New(StreamBodyOf(s))

\* impl From<BoxBody> for Body
FromBoxBody(b) == [ty |-> TBody, box |-> b]

\* impl From<()> for Body
FromUnit == Empty

\* A plausible slip: the buffer is dropped, the Body is empty.
FromStaticDropsBuffer(v) == New(EmptyNew)

\* body_from_impl!: From<$ty> for Body. A value of each of the seven types is a
\* run of bytes (a str is its UTF-8 bytes), which Full::from takes as it is.
FromStatic(v) == New(FullFrom(v.bytes))

\* The types body_from_impl! is instantiated for.
StaticKinds ==
    {<<"&'static [u8]">>, <<"Cow<'static, [u8]>">>, <<"Vec<u8>">>, <<"&'static str">>,
     <<"Cow<'static, str>">>, <<"String">>, <<"Bytes">>}

---------------------------------------------------------------------------
(* Polling *)

\* stream.try_poll_next(cx): the sequence's next item, None once it is exhausted.
TryPollNext(items) ==
    IF items = <<>>
    THEN [item |-> NoneItem, rest |-> <<>>]
    ELSE [item |-> Head(items), rest |-> Tail(items)]

\* A plausible slip: an error of the sequence is taken for its end.
StreamPollFrameErrEnds(b) ==
    LET p == TryPollNext(b.items)
        next == [b EXCEPT !.items = p.rest]
    IN  CASE p.item.tag = "Pending" -> [frame |-> PendingItem, next |-> next]
          [] p.item.tag = "Ok" -> [frame |-> OkItem(p.item.chunk), next |-> next]
          [] OTHER -> [frame |-> NoneItem, next |-> next]

\* StreamBody::poll_frame
StreamPollFrame(b) ==
    LET p == TryPollNext(b.items)
        next == [b EXCEPT !.items = p.rest]
    IN  CASE p.item.tag = "Pending" -> [frame |-> PendingItem, next |-> next]
          [] p.item.tag = "Ok" -> [frame |-> OkItem(p.item.chunk), next |-> next]
          [] p.item.tag = "Err" -> [frame |-> ErrItem(ErrorNew(p.item.err)), next |-> next]
          [] OTHER -> [frame |-> NoneItem, next |-> next]

\* poll_frame of a body that is not this crate's (Full, Empty, a caller's type):
\* its frames and its own error, as they come.
SourcePollFrame(b) ==
    LET p == TryPollNext(b.items)
    IN  [frame |-> p.item, next |-> [b EXCEPT !.items = p.rest]]

\* MapErr::poll_frame with Error::new, as Body::boxed installs it
MapErrFrame(frame) ==
    IF frame.tag = "Err" THEN ErrItem(ErrorNew(frame.err)) ELSE frame

\* poll_frame of what a Body holds
RECURSIVE PollFrame(_)
PollFrame(b) ==
    IF b.ty = TBoxBody
    THEN LET r == PollFrame(b.inner)
         IN  [frame |-> MapErrFrame(r.frame), next |-> [b EXCEPT !.inner = r.next]]
    ELSE IF b.ty = TStreamBody THEN StreamPollFrame(b)
    ELSE SourcePollFrame(b)

---------------------------------------------------------------------------
(* Body::to_bytes *)

NoResult == [tag |-> "None", bytes |-> <<>>, err |-> NoError]
OkResult(bytes) == [tag |-> "Ok", bytes |-> bytes, err |-> NoError]
ErrResult(e) == [tag |-> "Err", bytes |-> <<>>, err |-> e]

\* Collected::to_bytes: the buffered chunks, copied into one buffer in order.
RECURSIVE Concat(_)
Concat(chunks) ==
    IF chunks = <<>> THEN <<>> ELSE Head(chunks) \o Concat(Tail(chunks))

\* A plausible slip: a chunk is put in front of the buffered ones.
ToBytesStepPrepends(b, buf) ==
    LET r == PollFrame(b.box)
        next == [b EXCEPT !.box = r.next]
    IN  CASE r.frame.tag = "Pending" ->
                [body |-> next, collected |-> buf, result |-> NoResult, pc |-> "collecting"]
          [] r.frame.tag = "Ok" ->
                [body |-> next, collected |-> <<r.frame.chunk>> \o buf,
                 result |-> NoResult, pc |-> "collecting"]
          [] r.frame.tag = "Err" ->
                [body |-> next, collected |-> <<>>, result |-> ErrResult(r.frame.err),
                 pc |-> "done"]
          [] OTHER ->
                [body |-> next, collected |-> <<>>, result |-> OkResult(Concat(buf)),
                 pc |-> "done"]

\* A plausible slip: an error is skipped and the next frame is pulled.
ToBytesStepSkipsError(b, buf) ==
    LET r == PollFrame(b.box)
        next == [b EXCEPT !.box = r.next]
    IN  CASE r.frame.tag \in {"Pending", "Err"} ->
                [body |-> next, collected |-> buf, result |-> NoResult, pc |-> "collecting"]
          [] r.frame.tag = "Ok" ->
                [body |-> next, collected |-> Append(buf, r.frame.chunk),
                 result |-> NoResult, pc |-> "collecting"]
          [] OTHER ->
                [body |-> next, collected |-> <<>>, result |-> OkResult(Concat(buf)),
                 pc |-> "done"]

\* One poll of self.0.collect() in Body::to_bytes: a frame is pulled; data is
\* buffered, an error ends the future with Err (`?`) and drops the buffer,
\* end-of-data ends it with Ok of the buffered chunks' bytes.
ToBytesStep(b, buf) ==
    LET r == PollFrame(b.box)
        next == [b EXCEPT !.box = r.next]
    IN  CASE r.frame.tag = "Pending" ->
                [body |-> next, collected |-> buf, result |-> NoResult, pc |-> "collecting"]
          [] r.frame.tag = "Ok" ->
                [body |-> next, collected |-> Append(buf, r.frame.chunk),
                 result |-> NoResult, pc |-> "collecting"]
          [] r.frame.tag = "Err" ->
                [body |-> next, collected |-> <<>>, result |-> ErrResult(r.frame.err),
                 pc |-> "done"]
          [] OTHER ->
                [body |-> next, collected |-> <<>>, result |-> OkResult(Concat(buf)),
                 pc |-> "done"]

\* Whether this pull makes the source deliver an error or end-of-data.
DeliversTerminal(b) == PollFrame(b.box).frame.tag \in {"Err", "None"}

---------------------------------------------------------------------------
(* Spec: one Body, from its construction to the end of to_bytes *)

BodyIdle ==
    /\ pc = "start" /\ path = "none" /\ input = NoValue /\ body = NoValue
    /\ collected = <<>> /\ result = NoResult /\ pulls = 0 /\ terminal = 0

DowncastIdle == dc = [state |-> "start"]

ConvertIdle == env = [phase |-> "none"]

LogIdle ==
    /\ dir = [exists |-> FALSE, entries |-> <<>>] /\ days = 0 /\ cron = "None" /\ sched = "none"
    /\ lastRun = [by |-> "none"] /\ handled = FALSE /\ sinceTick = 0

\* No call of the prelude's helpers is under way.
NoText == <<>>

UnwrapIdle ==
    uw = [state |-> "start", fn |-> "none", arg |-> [tag |-> "none", val |-> ""],
          msg |-> "", ret |-> [some |-> FALSE, val |-> ""], log |-> <<>>,
          panic |-> [some |-> FALSE, text |-> NoText]]

Init == BodyIdle /\ DowncastIdle /\ ConvertIdle /\ LogIdle /\ UnwrapIdle

\* The values of the seven static types: every kind with every short buffer.
StaticValues ==
    {[ty |-> k, bytes |-> buf] :
        k \in StaticKinds, buf \in UNION {[1..n -> Byte] : n \in 0..MaxBufLen}}

\* A body already boxed by its owner, under n layers of map_err + box.
RECURSIVE BoxedTimes(_, _)
BoxedTimes(b, n) == IF n = 0 THEN b ELSE MapErrBoxed(BoxedTimes(b, n - 1))

\* What no constructor touches.
Untouched == UNCHANGED <<collected, result, pulls, terminal, dc, env, logVars, uw>>

CallFromStream ==
    /\ pc = "start"
    /\ \E s \in Streams :
        /\ input' = [ty |-> <<"S">>, items |-> s]
        /\ body' = FromStream(s)
    /\ pc' = "built" /\ path' = "from_stream" /\ Untouched

CallNewGeneric ==
    /\ pc = "start"
    /\ \E s \in Streams :
        /\ input' = GenericBodyOf(s)
        /\ body' = New(GenericBodyOf(s))
    /\ pc' = "built" /\ path' = "new_generic" /\ Untouched

CallNewBoxed ==
    /\ pc = "start"
    /\ \E s \in Streams, n \in 1..MaxLayers :
        /\ input' = BoxedTimes(GenericBodyOf(s), n)
        /\ body' = New(BoxedTimes(GenericBodyOf(s), n))
    /\ pc' = "built" /\ path' = "new_boxed" /\ Untouched

CallNewBody ==
    /\ pc = "start"
    /\ \E s \in Streams, n \in 1..MaxLayers :
        /\ input' = FromBoxBody(BoxedTimes(GenericBodyOf(s), n))
        /\ body' = New(FromBoxBody(BoxedTimes(GenericBodyOf(s), n)))
    /\ pc' = "built" /\ path' = "new_body" /\ Untouched

CallFromStatic ==
    /\ pc = "start"
    /\ \E v \in StaticValues :
        /\ input' = v
        /\ body' = FromStatic(v)
    /\ pc' = "built" /\ path' = "from_static" /\ Untouched

CallFromUnit ==
    /\ pc = "start"
    /\ input' = [ty |-> <<"()">>]
    /\ body' = FromUnit
    /\ pc' = "built" /\ path' = "from_unit" /\ Untouched

CallEmpty ==
    /\ pc = "start"
    /\ input' = NoValue
    /\ body' = Empty
    /\ pc' = "built" /\ path' = "empty" /\ Untouched

\* Body::to_bytes is called: self.0.collect() starts with nothing buffered.
CallToBytes ==
    /\ pc = "built"
    /\ pc' = "collecting"
    /\ UNCHANGED <<path, input, body, collected, result, pulls, terminal, dc, env, logVars, uw>>

\* The collect future is polled: one frame is pulled from the Body.
Pull ==
    /\ pc = "collecting"
    /\ LET n == ToBytesStep(body, collected)
       IN  /\ body' = n.body
           /\ collected' = n.collected
           /\ result' = n.result
           /\ pc' = n.pc
    /\ pulls' = pulls + 1
    /\ terminal' = IF terminal = 0 /\ DeliversTerminal(body) THEN pulls + 1 ELSE terminal
    /\ UNCHANGED <<path, input, dc, env, logVars, uw>>

Next ==
    \/ CallFromStream
    \/ CallNewGeneric
    \/ CallNewBoxed
    \/ CallNewBody
    \/ CallFromStatic
    \/ CallFromUnit
    \/ CallEmpty
    \/ CallToBytes
    \/ Pull

Spec == Init /\ [][Next]_vars

---------------------------------------------------------------------------
(* Claims about Spec *)

HasErr(items) == \E i \in 1..Len(items) : items[i].tag = "Err"

\* The chunks of the Ok items, in yield order.
RECURSIVE OkChunks(_)
OkChunks(items) ==
    IF items = <<>> THEN <<>>
    ELSE IF Head(items).tag = "Ok" THEN <<Head(items).chunk>> \o OkChunks(Tail(items))
    ELSE OkChunks(Tail(items))

\* The first error the items hold.
FirstErr(items) ==
    items[CHOOSE i \in 1..Len(items) :
            items[i].tag = "Err" /\ \A j \in 1..(i - 1) : items[j].tag # "Err"].err

\* The error under n layers of Error.
RECURSIVE Wrapped(_, _)
Wrapped(e, n) == IF n = 0 THEN e ELSE ErrorNew(Wrapped(e, n - 1))

\* C1: draining a Body built by from_stream over a sequence that yields no
\* error returns Ok with the chunks concatenated in yield order, however many
\* pending polls come in between, and also when there is no chunk at all.
StreamDrainConcatenates ==
    (pc = "done" /\ path = "from_stream" /\ ~HasErr(input.items))
        => result = OkResult(Concat(OkChunks(input.items)))

StreamDrainConcatenatesWitness ==
    /\ pc = "done" /\ path = "from_stream"
    /\ input.items = <<OkItem(<<97>>), PendingItem, OkItem(<<98>>)>>
    /\ result = OkResult(<<97, 98>>)

\* C2: when the sequence yields an error, after any number of chunks, the drain
\* returns Err; the chunks collected before it are dropped and reach the caller
\* neither in the result nor in a buffer left behind.
StreamErrorFailsDrain ==
    (pc = "done" /\ path = "from_stream" /\ HasErr(input.items))
        => (result.tag = "Err" /\ result.bytes = <<>> /\ collected = <<>>)

StreamErrorFailsDrainWitness ==
    /\ pc = "done" /\ path = "from_stream"
    /\ input.items = <<OkItem(<<97>>), OkItem(<<98>>), ErrItem(RawError("io"))>>
    /\ result.tag = "Err"

\* C3: the error a failed drain returns has the error the source yielded as its
\* cause (Error::source, Error::into_inner), on every construction path: the
\* sequence's error e under from_stream, the body's error e under Body::new, and
\* the box's own Error, passed on as it is, under Body::new of a boxed body.
DrainErrorCauseIsOriginal ==
    (pc = "done" /\ result.tag = "Err") =>
        /\ path \in {"from_stream", "new_generic"}
                => IntoInner(result.err) = FirstErr(Leaf(input).items)
        /\ path = "new_boxed"
                => result.err = Wrapped(FirstErr(Leaf(input).items), Layers(input))

\* C4: once the source has delivered an error or end-of-data the drain is over
\* and that pull was the last one: nothing is pulled again.
DrainStopsAtTerminal == terminal > 0 => (pc = "done" /\ pulls = terminal)

DrainStopsAtTerminalWitness ==
    /\ pc = "done" /\ path = "from_stream" /\ result.tag = "Err"
    /\ input.items = <<OkItem(<<97>>), ErrItem(RawError("io")), OkItem(<<98>>)>>
    /\ Leaf(body).items = <<OkItem(<<98>>)>>
    /\ pulls = 2 /\ terminal = 2

\* C5: a Body built from a value of one of the seven static types drains to Ok
\* of exactly the value's bytes, the empty value included; the unit value and
\* Body::empty() drain to Ok of no bytes; every such construction yields a Body.
StaticDrainYieldsValue ==
    /\ (pc = "done" /\ path = "from_static") => result = OkResult(input.bytes)
    /\ (pc = "done" /\ path \in {"from_unit", "empty"}) => result = OkResult(<<>>)
    /\ (pc = "built" /\ path \in {"from_static", "from_unit", "empty"})
            => (body.ty = TBody /\ result = NoResult)

StaticDrainYieldsValueWitness ==
    /\ pc = "done" /\ path = "from_static"
    /\ input = [ty |-> <<"String">>, bytes |-> <<97, 98>>]
    /\ result = OkResult(<<97, 98>>)

\* C6: Body::new of a Body is that Body, Body::new of a boxed body holds that box
\* itself, both with as many layers of erasure as before; any other source is
\* put under exactly one layer.
NewReusesErased ==
    pc = "built" =>
        /\ path = "new_body" => (body = input /\ Layers(body) = Layers(input))
        /\ path = "new_boxed" => (body.box = input /\ Layers(body) = Layers(input))
        /\ path = "new_generic" => (body.box.inner = input /\ Layers(body) = 1)
        /\ path \in {"from_stream", "from_static", "from_unit", "empty"} => Layers(body) = 1

NewReusesErasedWitness ==
    /\ pc = "built" /\ path = "new_boxed"
    /\ Layers(input) = MaxLayers /\ Layers(body) = MaxLayers
    /\ body.box = input

---------------------------------------------------------------------------
(* SpecDowncast: one call of Body::try_downcast::<T, K>(k) *)

\* A body type of the same capability as BoxBody (a body of Bytes) that is
\* another type: the box with another error type.
TLookalike == <<"UnsyncBoxBody", "Bytes", "BoxError">>

DowncastTargets ==
    {TBody, TBoxBody, TStreamBody, TFull, TEmpty, TGeneric, TLookalike, OptionOf(TBody)}

\* Values of every type a caller may hand over, some of each.
DowncastValues ==
    LET short == {s \in Streams : Len(s) <= 1}
    IN  {FromBoxBody(MapErrBoxed(GenericBodyOf(s))) : s \in short}
            \cup {MapErrBoxed(GenericBodyOf(s)) : s \in short}
            \cup {[ty |-> TLookalike, inner |-> GenericBodyOf(s)] : s \in short}
            \cup {[ty |-> OptionOf(TBody), some |-> FromStream(s)] : s \in short}
            \cup {StreamBodyOf(s) : s \in short}
            \cup {GenericBodyOf(s) : s \in short}
            \cup {FullFrom(c) : c \in Chunks}
            \cup {EmptyNew}

CallTryDowncast ==
    /\ dc.state = "start"
    /\ \E T \in DowncastTargets, k \in DowncastValues :
        dc' = [state |-> "done", T |-> T, k |-> k, res |-> TryDowncast(T, k)]
    /\ UNCHANGED <<bodyVars, env, logVars, uw>>

NextDowncast == CallTryDowncast

SpecDowncast == Init /\ [][NextDowncast]_vars

\* C7: try_downcast::<T, K>(k) is Ok exactly when K is the type T, and Err for
\* every other K, a type of the same capability as T included; either way it
\* holds k itself, and it does not panic.
TryDowncastExact ==
    dc.state = "done" =>
        /\ dc.res.ok <=> (dc.k.ty = dc.T)
        /\ dc.res.val = dc.k
        /\ ~dc.res.panicked

TryDowncastExactWitness ==
    /\ dc.state = "done"
    /\ dc.T = TBoxBody /\ dc.k.ty = TLookalike
    /\ ~dc.res.ok /\ dc.res.val = dc.k

---------------------------------------------------------------------------
(* SpecConvert: one envelope through ToBytes::to_bytes and FromBytes::from_bytes *)

\* HttpRequest and HttpResponse
EnvelopeKinds == {"Request", "Response"}

\* The metadata of an envelope (http::request::Parts, http::response::Parts).
PartsOf(kind) ==
    IF kind = "Request"
    THEN {[method |-> m, uri |-> "/", status |-> 0] : m \in {"GET", "POST"}}
    ELSE {[method |-> "", uri |-> "", status |-> s] : s \in {200, 404}}

\* Request::from_parts, Response::from_parts with a Body or with Bytes
FromParts(kind, parts, b) == [kind |-> kind, parts |-> parts, body |-> b]

\* Request::into_parts, Response::into_parts
IntoParts(e) == [parts |-> e.parts, body |-> e.body]

\* The end of ToBytes::to_bytes: `?` hands a failed drain on, a drained buffer is
\* put back with the parts.
ToBytesReturn(kind, parts, drained) ==
    IF drained.tag = "Err"
    THEN [tag |-> "Err", err |-> drained.err]
    ELSE [tag |-> "Ok", err |-> NoError, wrapper |-> FromParts(kind, parts, drained.bytes)]

\* A plausible slip: the envelope is rebuilt with fresh metadata.
FromBytesLosesParts(w) ==
    LET p == IntoParts(w)
        fresh == CHOOSE q \in PartsOf(w.kind) : q # p.parts
    IN  FromParts(w.kind, fresh, FromStatic([ty |-> <<"Bytes">>, bytes |-> p.body]))

\* FromBytes::from_bytes for HttpRequest and HttpResponse
FromBytes(w) ==
    LET p == IntoParts(w)
    IN  FromParts(w.kind, p.parts, FromStatic([ty |-> <<"Bytes">>, bytes |-> p.body]))

\* Body::to_bytes run to its end on b: the result of polling until it is ready.
RECURSIVE Drain(_, _)
Drain(b, buf) ==
    LET n == ToBytesStep(b, buf)
    IN  IF n.pc = "done" THEN n.result ELSE Drain(n.body, n.collected)

\* An envelope is at hand: metadata and a Body built over a stream, from a
\* buffer, or empty.
MakeEnvelope ==
    /\ env.phase = "none" /\ pc = "start"
    /\ \E kind \in EnvelopeKinds :
        \E parts \in PartsOf(kind) :
            \E b \in {FromStream(s) : s \in Streams}
                        \cup {FromStatic(v) : v \in {x \in StaticValues : x.ty = <<"Bytes">>}}
                        \cup {Empty} :
                /\ env' = [phase |-> "envelope", kind |-> kind, parts |-> parts, orig |-> b]
                /\ body' = b
    /\ pc' = "built"
    /\ UNCHANGED <<path, input, collected, result, pulls, terminal, dc, logVars, uw>>

\* ToBytes::to_bytes is called: into_parts, then b.to_bytes() is awaited.
CallEnvToBytes ==
    /\ env.phase = "envelope" /\ pc = "built"
    /\ body' = IntoParts(FromParts(env.kind, env.parts, body)).body
    /\ env' = [phase |-> "to_bytes", kind |-> env.kind, parts |-> env.parts, orig |-> env.orig]
    /\ pc' = "collecting"
    /\ UNCHANGED <<path, input, collected, result, pulls, terminal, dc, logVars, uw>>

\* b.to_bytes() is ready: ToBytes::to_bytes returns.
EnvToBytesReturn ==
    /\ env.phase = "to_bytes" /\ pc = "done"
    /\ env' = [phase |-> "returned", kind |-> env.kind, parts |-> env.parts, orig |-> env.orig,
               out |-> ToBytesReturn(env.kind, env.parts, result)]
    /\ pc' = "returned"
    /\ UNCHANGED <<path, input, body, collected, result, pulls, terminal, dc, logVars, uw>>

\* FromBytes::from_bytes is called on the buffer-backed envelope.
CallFromBytes ==
    /\ env.phase = "returned" /\ env.out.tag = "Ok"
    /\ LET e == FromBytes(env.out.wrapper)
       IN  /\ env' = [phase |-> "envelope2", kind |-> env.kind, parts |-> env.parts,
                      orig |-> env.orig, back |-> [kind |-> e.kind, parts |-> e.parts]]
           /\ body' = e.body
    /\ pc' = "built" /\ collected' = <<>> /\ result' = NoResult /\ pulls' = 0 /\ terminal' = 0
    /\ UNCHANGED <<path, input, dc, logVars, uw>>

\* The Body of the envelope that came back is drained in its turn.
CallToBytesAgain ==
    /\ env.phase = "envelope2" /\ pc = "built"
    /\ env' = [env EXCEPT !.phase = "drained"]
    /\ pc' = "collecting"
    /\ UNCHANGED <<path, input, body, collected, result, pulls, terminal, dc, logVars, uw>>

NextConvert ==
    \/ MakeEnvelope
    \/ CallEnvToBytes
    \/ Pull
    \/ EnvToBytesReturn
    \/ CallFromBytes
    \/ CallToBytesAgain

SpecConvert == Init /\ [][NextConvert]_vars

\* C8: from_bytes(to_bytes(envelope)) has the metadata of the envelope and a
\* Body that drains to what the envelope's Body drains to; when that drain
\* fails, to_bytes returns its Err and no envelope; from_bytes does not fail.
ConvertRoundTrip ==
    /\ (env.phase = "drained" /\ pc = "done") =>
            /\ env.back = [kind |-> env.kind, parts |-> env.parts]
            /\ Drain(env.orig, <<>>).tag = "Ok"
            /\ result = Drain(env.orig, <<>>)
    /\ env.phase = "returned" =>
            /\ env.out.tag = "Err" <=> Drain(env.orig, <<>>).tag = "Err"
            /\ env.out.tag = "Err" =>
                    (env.out.err = Drain(env.orig, <<>>).err /\ ~ENABLED CallFromBytes)
            /\ env.out.tag = "Ok" => ENABLED CallFromBytes
    /\ env.phase = "envelope2" => (body.ty = TBody /\ pc = "built")

ConvertRoundTripWitness ==
    /\ env.phase = "drained" /\ pc = "done"
    /\ env.kind = "Request" /\ env.parts.method = "POST"
    /\ env.orig = FromStream(<<OkItem(<<97>>), PendingItem, OkItem(<<98>>)>>)
    /\ env.back.parts = env.parts
    /\ result = OkResult(<<97, 98>>)

---------------------------------------------------------------------------
(* SpecLog: one LogCleaner, called directly and run by the cron scheduler *)

\* Time is counted in units, UnitsPerDay of them to a day. An age past MaxAge
\* is kept as MaxAge: from there on NumDays is past every self.days there is.
MaxAge == (MaxDays + 2) * UnitsPerDay

\* What read_dir may list: a file, a sub-directory (remove_file fails on it), a
\* dangling symbolic link (fs::metadata fails on it).
EntryKinds == {"file", "dir", "dangling"}

\* The directories: up to MaxEntries entries in read_dir's order, each named by
\* its place, of any kind and any age since it was last modified.
Dirs ==
    {[exists |-> FALSE, entries |-> <<>>]} \cup
    {[exists |-> TRUE, entries |-> [i \in 1..n |-> [name |-> i, kind |-> k[i], age |-> a[i]]]] :
        n \in 0..MaxEntries, k \in [1..MaxEntries -> EntryKinds], a \in [1..MaxEntries -> 0..MaxAge]}

\* self.cron_expression: none, the default written out, twice a day, and one
\* that does not parse.
CronExpressions == {"None", "0 0 0 * * * *", "0 0 0,12 * * * *", "every day"}

\* cron_expression.unwrap_or("0 0 0 * * * *")
CronOrDefault(c) == IF c = "None" THEN "0 0 0 * * * *" ELSE c

\* The units between two matches of a cron expression, 0 when it does not parse
\* (Job::new_async then fails).
CronPeriod(expr) ==
    CASE expr = "0 0 0 * * * *" -> UnitsPerDay
      [] expr = "0 0 0,12 * * * *" -> IF UnitsPerDay \div 2 = 0 THEN 1 ELSE UnitsPerDay \div 2
      [] OTHER -> 0

\* Duration::num_days: the whole days in a duration, rounded toward zero.
NumDays(units) ==
    IF units >= 0 THEN units \div UnitsPerDay ELSE -((-units) \div UnitsPerDay)

\* The for loop of cleanup_files_immediately from entry i on, `kept` being the
\* entries it went past: the first failure returns at once.
RECURSIVE CleanupLoop(_, _, _, _)
CleanupLoop(entries, i, kept, d) ==
    IF i > Len(entries) THEN [ret |-> "Ok", entries |-> kept]
    ELSE LET e == entries[i]
             rest == SubSeq(entries, i, Len(entries))
         IN  IF e.kind = "dangling" THEN [ret |-> "Err", entries |-> kept \o rest]
             ELSE IF NumDays(e.age) > d
                  THEN IF e.kind = "dir" THEN [ret |-> "Err", entries |-> kept \o rest]
                       ELSE CleanupLoop(entries, i + 1, kept, d)
                  ELSE CleanupLoop(entries, i + 1, Append(kept, e), d)

\* LogCleaner::cleanup_files_immediately
CleanupFilesImmediately(directory, d) ==
    IF ~directory.exists THEN [ret |-> "Err", dir |-> directory]
    ELSE LET r == CleanupLoop(directory.entries, 1, <<>>, d)
         IN  [ret |-> r.ret, dir |-> [exists |-> TRUE, entries |-> r.entries]]

InitLog ==
    /\ BodyIdle /\ DowncastIdle /\ ConvertIdle /\ UnwrapIdle
    /\ dir \in Dirs /\ days \in 0..MaxDays /\ cron \in CronExpressions
    /\ sched = "none" /\ lastRun = [by |-> "none"] /\ handled = FALSE /\ sinceTick = 0

\* The application calls cleanup_files_immediately itself.
CallCleanup ==
    /\ LET r == CleanupFilesImmediately(dir, days)
       IN  /\ dir' = r.dir
           /\ lastRun' = [by |-> "call", before |-> dir, after |-> r.dir, ret |-> r.ret]
    /\ UNCHANGED <<bodyVars, dc, env, uw, days, cron, sched, handled, sinceTick>>

\* schedule_cleanup_log_files fails: JobScheduler::new, add or start returns an
\* error, or Job::new_async rejects the cron expression.
CallScheduleErr ==
    /\ sched = "none"
    /\ sched' = "failed"
    /\ UNCHANGED <<bodyVars, dc, env, uw, dir, days, cron, lastRun, handled, sinceTick>>

\* schedule_cleanup_log_files returns Ok: the job is added under the cron
\* expression and the scheduler runs; the next match is up to a period away.
CallScheduleOk ==
    /\ sched = "none"
    /\ CronPeriod(CronOrDefault(cron)) > 0
    /\ sched' = "running"
    /\ sinceTick' \in 1..CronPeriod(CronOrDefault(cron))
    /\ UNCHANGED <<bodyVars, dc, env, uw, dir, days, cron, lastRun, handled>>

\* The cron expression matches: the job runs cleanup_files_immediately and hands
\* a failure to error_handler.handle_error. (It then sleeps to its next tick; the
\* scheduler starts the next run whether or not this one is still asleep.)
Tick ==
    /\ sched = "running"
    /\ sinceTick = CronPeriod(CronOrDefault(cron))
    /\ LET r == CleanupFilesImmediately(dir, days)
       IN  /\ dir' = r.dir
           /\ lastRun' = [by |-> "job", before |-> dir, after |-> r.dir, ret |-> r.ret]
           /\ handled' = (r.ret = "Err")
    /\ sinceTick' = 0
    /\ UNCHANGED <<bodyVars, dc, env, uw, days, cron, sched>>

\* One unit of time passes, and a due tick is not passed over: every entry
\* is one unit older.
Advance ==
    /\ sched = "running" => sinceTick < CronPeriod(CronOrDefault(cron))
    /\ dir' = [dir EXCEPT !.entries =
                [i \in 1..Len(dir.entries) |->
                    [dir.entries[i] EXCEPT !.age = IF @ < MaxAge THEN @ + 1 ELSE @]]]
    /\ sinceTick' = IF sched = "running" THEN sinceTick + 1 ELSE sinceTick
    /\ UNCHANGED <<bodyVars, dc, env, uw, days, cron, sched, lastRun, handled>>

NextLog ==
    \/ CallCleanup
    \/ CallScheduleErr
    \/ CallScheduleOk
    \/ Tick
    \/ Advance

\* Time passes, and a running scheduler fires the job at each match.
SpecLog == InitLog /\ [][NextLog]_vars /\ WF_vars(Tick) /\ WF_vars(Advance)

\* Whether the entry was last modified more than d days ago.
OlderThanDays(e, d) == e.age > d * UnitsPerDay

\* C9: a call of cleanup_files_immediately that returns Ok has removed every
\* file of self.dir last modified more than self.days days ago, and no other.
CleanupRemovesExactlyOld ==
    (lastRun.by = "call" /\ lastRun.ret = "Ok") =>
        \A i \in 1..Len(lastRun.before.entries) :
            LET e == lastRun.before.entries[i]
                stays == \E j \in 1..Len(lastRun.after.entries) : lastRun.after.entries[j] = e
            IN  e.kind = "file" => (OlderThanDays(e, days) <=> ~stays)

\* No file of self.dir was last modified more than self.days days ago.
NoOldFile ==
    \A i \in 1..Len(dir.entries) :
        dir.entries[i].kind = "file" => ~OlderThanDays(dir.entries[i], days)

\* C10: once schedule_cleanup_log_files has returned Ok, the cleanup runs at
\* every tick, so that in the end self.dir holds no file older than self.days
\* days, a failed run being reported and the later ticks still running.
ScheduledCleanupLeavesNoOldFile == [](sched = "running" => <>NoOldFile)

---------------------------------------------------------------------------
(* SpecUnwrap: the panic-with-logging helpers of the prelude *)

\* Text put together by format! is the sequence of its pieces.

\* The lines to_human_readable always leaves out: `if i >= 8`.
SkippedLines == 8

\* Function names a backtrace may show.
FrameSymbols ==
    {"app::main",
     "busylib::prelude::log_and_panic",
     "tokio::runtime::task::raw::poll",
     "<core::option::Option<T> as busylib::prelude::EnhancedExpect<T,alloc::string::String>>::ex",
     "std::sys_common::backtrace::__rust_begin_short_backtrace",
     "<F as axum::handler::Handler<(M,T1),S>>::call"}

\* str::starts_with and str::contains on the names above
StartsWith(s, prefix) ==
    CASE prefix = "busylib::" -> s = "busylib::prelude::log_and_panic"
      [] prefix = "tokio::" -> s = "tokio::runtime::task::raw::poll"
      [] prefix = "std::sys_common::backtrace::__rust_begin_short_backtrace" ->
            s = "std::sys_common::backtrace::__rust_begin_short_backtrace"
      [] prefix = "<F as axum::handler::Handler" ->
            s = "<F as axum::handler::Handler<(M,T1),S>>::call"
      [] OTHER -> FALSE

Contains(s, part) ==
    part = "busylib::prelude::EnhancedExpect" /\
    s = "<core::option::Option<T> as busylib::prelude::EnhancedExpect<T,alloc::string::String>>::ex"

\* A frame as Backtrace's Display prints it: the line of the function, "N: name",
\* and the line of the place, "at file:line:col". `after` is what follows the
\* line's first colon and one more character.
FrameLines(sym) ==
    <<[text |-> sym, after |-> sym], [text |-> "at src/main.rs:10:5", after |-> "0:5"]>>

RECURSIVE FramesLines(_)
FramesLines(frames) ==
    IF frames = <<>> THEN <<>> ELSE FrameLines(Head(frames)) \o FramesLines(Tail(frames))

\* What Backtrace::force_capture() may print: the frames of the capture itself,
\* which fill the first lines, then the callers' frames, then the empty piece
\* split('\n') finds after the last line break.
Backtraces ==
    {FramesLines([i \in 1..(SkippedLines \div 2) |-> "std::backtrace::Backtrace::create"])
        \o FramesLines(fs) \o <<[text |-> "", after |-> ""]>> :
            fs \in UNION {[1..n -> FrameSymbols] : n \in 0..MaxFrames}}

\* The loop of to_human_readable from line i on (i counts from 0).
RECURSIVE HumanReadableLoop(_, _, _, _, _)
HumanReadableLoop(lines, i, skip_next_line, is_function_name_line, text) ==
    IF i >= Len(lines) THEN text
    ELSE LET line == lines[i + 1]
             after == IF line.text = "" THEN "" ELSE line.after
         IN  IF i < SkippedLines
             THEN HumanReadableLoop(lines, i + 1, skip_next_line, is_function_name_line, text)
             ELSE IF skip_next_line
             THEN HumanReadableLoop(lines, i + 1, FALSE, is_function_name_line, text)
             ELSE IF \/ StartsWith(after, "busylib::")
                     \/ StartsWith(after, "tokio::")
                     \/ Contains(after, "busylib::prelude::EnhancedExpect")
             THEN HumanReadableLoop(lines, i + 1, TRUE, is_function_name_line, text)
             ELSE IF \/ StartsWith(after,
                            "std::sys_common::backtrace::__rust_begin_short_backtrace")
                     \/ StartsWith(after, "<F as axum::handler::Handler")
             THEN text
             ELSE HumanReadableLoop(lines, i + 1, skip_next_line, ~is_function_name_line,
                    IF is_function_name_line
                    THEN text \o <<line.text>>
                    ELSE text \o <<" ", line.text, "\n">>)

\* DisplayBackTrace::to_human_readable
to_human_readable(bt) == HumanReadableLoop(bt, 0, FALSE, TRUE, <<>>)

\* A plausible slip: the record is put together without the context.
log_and_panic_no_context(err, msg, bt) ==
    LET err_msg == IF err.some THEN err.val ELSE ""
    IN  <<"this should never happen: ", err_msg, ", back_trace: ">> \o to_human_readable(bt)

\* log_and_panic: the text that is logged with error! and then panicked with.
log_and_panic(err, msg, bt) ==
    LET err_msg == IF err.some THEN err.val ELSE ""
    IN  <<"this should never happen: ", err_msg, ", context: ", msg, ", back_trace: ">>
            \o to_human_readable(bt)

\* What a helper comes to before anything is logged: the value it returns, or
\* the call of log_and_panic it makes.
Returns(v) == [tag |-> "value", val |-> v, err |-> [some |-> FALSE, val |-> ""], msg |-> ""]
Fails(err, msg) == [tag |-> "log_and_panic", val |-> "", err |-> err, msg |-> msg]

\* ok_ctx
ok_ctx(res, msg) ==
    IF res.tag = "Ok" THEN Returns(res.val) ELSE Fails([some |-> TRUE, val |-> res.val], msg)

\* some_ctx
some_ctx(option, msg) ==
    IF option.tag = "Some" THEN Returns(option.val) ELSE Fails([some |-> FALSE, val |-> ""], msg)

\* ok
ok(res) == ok_ctx(res, "")

\* some
some(option) == some_ctx(option, "")

\* EnhancedUnwrap::unwp for Result and for Option
unwp(self) == IF self.tag \in {"Ok", "Err"} THEN ok(self) ELSE some(self)

\* EnhancedExpect::ex for Result and for Option
ex(self, msg) == IF self.tag \in {"Ok", "Err"} THEN ok_ctx(self, msg) ELSE some_ctx(self, msg)

\* The Results and Options handed in; an error is known by its Display text.
ResultArgs ==
    {[tag |-> "Ok", val |-> v] : v \in {"v1", "v2"}}
        \cup {[tag |-> "Err", val |-> e] : e \in {"connection refused", "timed out"}}

OptionArgs == {[tag |-> "Some", val |-> v] : v \in {"v1", "v2"}} \cup {[tag |-> "None", val |-> ""]}

ContextMessages == {"on purpose", "UtcOffset::from_hms should work", ""}

\* The helper called with its arguments.
Apply(fn, arg, msg) ==
    CASE fn = "unwp" -> unwp(arg)
      [] fn = "ex" -> ex(arg, msg)
      [] fn = "ok" -> ok(arg)
      [] fn = "some" -> some(arg)
      [] fn = "ok_ctx" -> ok_ctx(arg, msg)
      [] OTHER -> some_ctx(arg, msg)

ArgsOf(fn) ==
    CASE fn \in {"unwp", "ex"} -> ResultArgs \cup OptionArgs
      [] fn \in {"ok", "ok_ctx"} -> ResultArgs
      [] OTHER -> OptionArgs

MessagesOf(fn) == IF fn \in {"ex", "ok_ctx", "some_ctx"} THEN ContextMessages ELSE {""}

\* A helper is called.
CallHelper ==
    /\ uw.state = "start"
    /\ \E fn \in {"unwp", "ex", "ok", "some", "ok_ctx", "some_ctx"} :
        \E arg \in ArgsOf(fn), msg \in MessagesOf(fn) :
            uw' = [uw EXCEPT !.state = "called", !.fn = fn, !.arg = arg, !.msg = msg]
    /\ UNCHANGED <<bodyVars, dc, env, logVars>>

\* The value of Ok or Some is handed back.
ReturnValue ==
    /\ uw.state = "called"
    /\ Apply(uw.fn, uw.arg, uw.msg).tag = "value"
    /\ uw' = [uw EXCEPT !.state = "returned",
                        !.ret = [some |-> TRUE, val |-> Apply(uw.fn, uw.arg, uw.msg).val]]
    /\ UNCHANGED <<bodyVars, dc, env, logVars>>

\* log_and_panic up to error!: the backtrace is captured, the text is put
\* together and handed to the logger.
LogError ==
    /\ uw.state = "called"
    /\ Apply(uw.fn, uw.arg, uw.msg).tag = "log_and_panic"
    /\ \E bt \in Backtraces :
        LET call == Apply(uw.fn, uw.arg, uw.msg)
        IN  uw' = [uw EXCEPT !.state = "logged",
                             !.log = Append(@, log_and_panic(call.err, call.msg, bt))]
    /\ UNCHANGED <<bodyVars, dc, env, logVars>>

\* panic! with the text that was logged: the caller gets no value.
Panic ==
    /\ uw.state = "logged"
    /\ uw' = [uw EXCEPT !.state = "panicked",
                        !.panic = [some |-> TRUE, text |-> uw.log[Len(uw.log)]]]
    /\ UNCHANGED <<bodyVars, dc, env, logVars>>

NextUnwrap ==
    \/ CallHelper
    \/ ReturnValue
    \/ LogError
    \/ Panic

SpecUnwrap == Init /\ [][NextUnwrap]_vars

\* Whether the text holds piece s right after the piece `label`.
HoldsAfter(text, label, s) ==
    \E i \in 1..(Len(text) - 1) : text[i] = label /\ text[i + 1] = s

\* The Display text of the error handed in: none for an Option.
ErrorText(arg) == IF arg.tag = "Err" THEN arg.val ELSE ""

\* C11: unwp, ex, ok, some, ok_ctx and some_ctx hand back the value of Ok or
\* Some as it is, with nothing logged and no panic; on Err or None they log one
\* error record that holds the error's text and the context message, then panic
\* with that same text, and hand no value back.
UnwrapLogsThenPanics ==
    /\ uw.state = "called" =>
            /\ uw.log = <<>> /\ ~uw.panic.some /\ ~uw.ret.some
            /\ uw.arg.tag \in {"Ok", "Some"} => (ENABLED ReturnValue /\ ~ENABLED LogError)
            /\ uw.arg.tag \in {"Err", "None"} => (ENABLED LogError /\ ~ENABLED ReturnValue)
    /\ uw.state = "returned" =>
            /\ uw.arg.tag \in {"Ok", "Some"}
            /\ uw.ret = [some |-> TRUE, val |-> uw.arg.val]
            /\ uw.log = <<>> /\ ~uw.panic.some
    /\ uw.state \in {"logged", "panicked"} =>
            /\ uw.arg.tag \in {"Err", "None"}
            /\ ~uw.ret.some /\ ~ENABLED ReturnValue
            /\ Len(uw.log) = 1
            /\ HoldsAfter(uw.log[1], "this should never happen: ", ErrorText(uw.arg))
            /\ HoldsAfter(uw.log[1], ", context: ", uw.msg)
    /\ uw.state = "logged" => ~uw.panic.some
    /\ uw.state = "panicked" => (uw.panic.some /\ uw.panic.text = uw.log[1])

UnwrapLogsThenPanicsWitness ==
    /\ uw.state = "panicked" /\ uw.fn = "ex"
    /\ uw.arg.tag = "None" /\ uw.msg = "on purpose"
    /\ Len(uw.log) = 1 /\ uw.panic.text = uw.log[1]
    /\ HoldsAfter(uw.log[1], ", back_trace: ", "app::main")

=============================================================================
